---------------------------- MODULE Spec2Model ----------------------------
(***************************************************************************)
(* A model of qsys-compiler.js (class QSysPluginCompiler): the version     *)
(* functions, updatePluginInfo, processEncodes, processIncludes and the    *)
(* compile pipeline.                                                       *)
(*                                                                         *)
(* Text is modelled at two levels.  Version strings are sequences of       *)
(* one-character strings, so that split / parseInt / join are computed     *)
(* digit by digit.  Lua sources and info.lua are sequences of tokens: the  *)
(* matches of the compiler's regular expressions and the literal text      *)
(* between them.                                                           *)
(***************************************************************************)
EXTENDS Integers, Sequences, FiniteSets, TLC

VARIABLES
    \* ---- the file system ----
    fileKind,     \* Lua file name -> "file" | "missing" | "dir"
    fileText,     \* Lua file name -> its text, a sequence of tokens
    asset,        \* the image file the #encode directives name
    infoFile,     \* info.lua: [exists, text]
    outFile,      \* the .qplug artifact: [written, text]
    \* ---- one run of compile(options) ----
    pc,           \* where compile is: "start", "info", "read", "includes",
                  \* "encodes", "write", "done", "exit1"
    buildType,    \* options.buildType of this run
    stack,        \* the active processIncludes calls, outermost first
    content,      \* compile's local variable content
    infoReturn,   \* what updatePluginInfo returned: [null, text]
    \* ---- observers (written, never read, by the actions) ----
    runs,         \* the number of compile runs started
    infoWrites,   \* the number of fs.writeFileSync(infoPath, ...) calls
    uuidLog,      \* the identifiers generateUUID returned, in order
    kindLog,      \* the build kinds of the updatePluginInfo calls that
                  \* found info.lua, in order
    info0,        \* info.lua as it was before the first run
    encodeCalls,  \* the number of times this run invoked the callback of
                  \* processEncodes (once per #encode occurrence of a pass)
    fsOps,        \* the file-system calls this run has made, in order
    \* ---- direct calls of the version functions (VerSpec) ----
    vpc,          \* "idle" | "inc" | "inc-done" | "fmt" | "fmt-done"
    verArg,       \* incrementVersion's currentVersion (a string)
    kindArg,      \* incrementVersion's buildType
    verResult,    \* incrementVersion's return value (a string)
    tupleArg,     \* formatVersion's versionArray
    tupleResult   \* parseVersion(formatVersion(tupleArg))

fsVars   == <<fileKind, fileText, asset>>
runVars  == <<pc, buildType, stack, content, infoReturn, outFile>>
infoVars == <<infoFile, infoWrites, uuidLog, kindLog, info0>>
verVars  == <<vpc, verArg, kindArg, verResult, tupleArg, tupleResult>>
vars     == <<fsVars, runVars, infoVars, runs, encodeCalls, fsOps, verVars>>

----------------------------------------------------------------------------
(* Strings *)

\* A string is a sequence of one-character strings.

DigitChars == <<"0", "1", "2", "3", "4", "5", "6", "7", "8", "9">>

IsDigit(c) == \E i \in 1..10 : DigitChars[i] = c

DigitVal(c) == (CHOOSE i \in 1..10 : DigitChars[i] = c) - 1

IsSpace(c) == c = " "

RECURSIVE Concat(_)
Concat(ss) == IF ss = <<>> THEN <<>> ELSE Head(ss) \o Concat(Tail(ss))

\* String.prototype.split(sep) for a one-character separator
RECURSIVE Split(_, _)
Split(s, sep) ==
    IF \A i \in 1..Len(s) : s[i] # sep
    THEN <<s>>
    ELSE LET k == CHOOSE i \in 1..Len(s) :
                      s[i] = sep /\ \A j \in 1..(i - 1) : s[j] # sep
         IN  <<SubSeq(s, 1, k - 1)>> \o Split(SubSeq(s, k + 1, Len(s)), sep)

\* Array.prototype.join(sep) over strings
RECURSIVE Join(_, _)
Join(ss, sep) ==
    IF ss = <<>> THEN <<>>
    ELSE IF Len(ss) = 1 THEN ss[1]
    ELSE ss[1] \o <<sep>> \o Join(Tail(ss), sep)

RECURSIVE NatToString(_)
NatToString(n) ==
    IF n < 10 THEN <<DigitChars[n + 1]>>
    ELSE NatToString(n \div 10) \o <<DigitChars[(n % 10) + 1]>>

\* Number.prototype.toString for an integer
NumberToString(n) == IF n < 0 THEN <<"-">> \o NatToString(-n) ELSE NatToString(n)

RECURSIVE DropSpaces(_)
DropSpaces(s) ==
    IF s # <<>> /\ IsSpace(Head(s)) THEN DropSpaces(Tail(s)) ELSE s

RECURSIVE LeadingDigits(_)
LeadingDigits(s) ==
    IF s # <<>> /\ IsDigit(Head(s)) THEN <<Head(s)>> \o LeadingDigits(Tail(s))
    ELSE <<>>

RECURSIVE DigitsToNat(_)
DigitsToNat(ds) ==
    IF ds = <<>> THEN 0
    ELSE 10 * DigitsToNat(SubSeq(ds, 1, Len(ds) - 1)) + DigitVal(ds[Len(ds)])

\* parseInt(s, 10): leading white space, an optional sign, then the longest
\* run of decimal digits; NaN when there is no digit.
ParseInt(s) ==
    LET t    == DropSpaces(s)
        neg  == t # <<>> /\ Head(t) = "-"
        body == IF t # <<>> /\ Head(t) \in {"-", "+"} THEN Tail(t) ELSE t
        ds   == LeadingDigits(body)
    IN  IF ds = <<>> THEN [nan |-> TRUE, val |-> 0]
        ELSE [nan |-> FALSE,
              val |-> IF neg THEN -DigitsToNat(ds) ELSE DigitsToNat(ds)]

\* parseInt(num, 10) || 0
ParseIntOrZero(s) == LET n == ParseInt(s) IN IF n.nan THEN 0 ELSE n.val

----------------------------------------------------------------------------
(* parseVersion / formatVersion / incrementVersion *)

RECURSIVE PadTo4(_)
PadTo4(parts) == IF Len(parts) < 4 THEN PadTo4(Append(parts, 0)) ELSE parts

parseVersion(versionStr) ==
    LET strs == Split(versionStr, ".")
    IN  PadTo4([i \in 1..Len(strs) |-> ParseIntOrZero(strs[i])])

\* formatVersion with join()'s default separator, a comma
formatVersionComma(versionArray) ==
    Join([i \in 1..Len(versionArray) |-> NumberToString(versionArray[i])], ",")

formatVersion(versionArray) ==
    Join([i \in 1..Len(versionArray) |-> NumberToString(versionArray[i])], ".")

BuildKinds == {"ver_maj", "ver_min", "ver_fix", "ver_dev", "nightly"}

\* BumpedVersion with the resets of ver_min and ver_fix left out
BumpedVersionNoReset(v, kind) ==
    CASE kind = "ver_maj" ->
            [v EXCEPT ![1] = v[1] + 1, ![2] = 0, ![3] = 0, ![4] = 0]
      [] kind = "ver_min" -> [v EXCEPT ![2] = v[2] + 1]
      [] kind = "ver_fix" -> [v EXCEPT ![3] = v[3] + 1]
      [] OTHER -> [v EXCEPT ![4] = v[4] + 1]

\* the switch of incrementVersion; version[k] of the source is v[k + 1]
BumpedVersion(v, kind) ==
    CASE kind = "ver_maj" ->
            [v EXCEPT ![1] = v[1] + 1, ![2] = 0, ![3] = 0, ![4] = 0]
      [] kind = "ver_min" ->
            [v EXCEPT ![2] = v[2] + 1, ![3] = 0, ![4] = 0]
      [] kind = "ver_fix" ->
            [v EXCEPT ![3] = v[3] + 1, ![4] = 0]
      [] OTHER ->
            [v EXCEPT ![4] = v[4] + 1]

incrementVersion(currentVersion, kind) ==
    formatVersion(BumpedVersion(parseVersion(currentVersion), kind))

----------------------------------------------------------------------------
(* info.lua and updatePluginInfo *)

\* info.lua is a sequence of tokens [t, v]:
\*   "text"    literal text that matches nothing
\*   "guid"    the literal <guid>
\*   "uuid"    an identifier generateUUID produced, v = <<its name>>
\*   "version" BuildVersion = "v"; with v = <<>> it is BuildVersion = "",
\*             which buildVersionPattern ([^"]+) does not match
InfoTok(t, v) == [t |-> t, v |-> v]

UUIDs == {"uuid-1", "uuid-2"}

\* content.includes('<guid>')
IncludesGuid(text) == \E i \in 1..Len(text) : text[i].t = "guid"

\* content.replace('<guid>', newUUID): the first occurrence only
ReplaceGuid(text, newUUID) ==
    LET k == CHOOSE i \in 1..Len(text) :
                 text[i].t = "guid" /\ \A j \in 1..(i - 1) : text[j].t # "guid"
    IN  [text EXCEPT ![k] = InfoTok("uuid", <<newUUID>>)]

MatchesBuildVersion(tok) == tok.t = "version" /\ tok.v # <<>>

\* content.match(buildVersionPattern): the index of the first match, 0 for null
VersionMatch(text) ==
    IF \E i \in 1..Len(text) : MatchesBuildVersion(text[i])
    THEN CHOOSE i \in 1..Len(text) :
             MatchesBuildVersion(text[i])
             /\ \A j \in 1..(i - 1) : ~MatchesBuildVersion(text[j])
    ELSE 0

\* WritesBack writing whether or not anything was modified
WritesBackAlways(modified) == TRUE

\* WritesBack never writing
WritesBackNever(modified) == FALSE

\* if (modified) fs.writeFileSync(infoPath, content)
WritesBack(modified) == modified

Null == [null |-> TRUE, text |-> <<>>]

\* updatePluginInfo(infoPath, buildType), with newUUID what generateUUID
\* returns if it is called.  The result: the file afterwards, the return
\* value, and what happened on the way.
updatePluginInfo(file, kind, newUUID) ==
    IF ~file.exists
    THEN [file |-> file, ret |-> Null, wrote |-> FALSE, generated |-> FALSE,
          found |-> FALSE]
    ELSE LET c0   == file.text
             gen  == IncludesGuid(c0)
             c1   == IF gen THEN ReplaceGuid(c0, newUUID) ELSE c0
             k    == VersionMatch(c1)
             c2   == IF k # 0
                     THEN [c1 EXCEPT ![k] =
                              InfoTok("version", incrementVersion(c1[k].v, kind))]
                     ELSE c1
             modified == gen \/ k # 0
         IN  [file |-> IF WritesBack(modified)
                       THEN [exists |-> TRUE, text |-> c2] ELSE file,
              ret |-> [null |-> FALSE, text |-> c2],
              wrote |-> WritesBack(modified),
              generated |-> gen,
              found |-> TRUE]

----------------------------------------------------------------------------
(* Lua text, processEncodes *)

\* Lua text is a sequence of tokens [t, name, at, by, inner]:
\*   "text"       literal text that matches neither pattern
\*   "include"    --[[ #include "name" ]]
\*   "encode"     --[[ #encode "name" ]]
\*   "wrapped"    --[[ #encode --[[ #encode "name" ]] ]]: an encode directive
\*                inside literal text that is a directive but for its missing
\*                quoted name
\*   "begin", "end"                      the markers around an included file
\*   "circular", "notfound", "incerror"  the markers of a failed include
\*   "image", "imgnotfound", "imgerror"  the quoted replacements of an encode
\* name is the file name the directive or marker carries; at is the buffer
\* the token was read from (a Lua file name, or Top for the text compile
\* itself read).  The replacement of an encode directive is a quoted string,
\* so replacing the directive of a "wrapped" token leaves
\* --[[ #encode "<replacement>" ]]: an "encode" token whose inner is the
\* replacement that now stands as its file name (inner is "" on every other
\* token).  by is the buffer whose processEncodes pass replaced the encode
\* directive that was in the source; at and by are observers.
\* File names stand for normalised relative paths: two names are equal
\* exactly when path.resolve(basePath, name) gives the same absolute path.
Tok(t, name, at) == [t |-> t, name |-> name, at |-> at, by |-> "", inner |-> ""]

Top == "<compile>"

SupportedImageExtensions == {".png", ".jpg", ".jpeg", ".svg"}

\* What the callback of processEncodes returns for one occurrence:
\* existsSync first, then encodeImage's extension test, then its read.
EncodeOutcome(a) ==
    IF ~a.exists THEN "imgnotfound"
    ELSE IF a.ext \notin SupportedImageExtensions THEN "imgerror"
    ELSE IF ~a.readable THEN "imgerror"
    ELSE "image"

\* The file an encode directive names: the image, or, for a directive that
\* a replacement completed, a file named by that replacement's text (base64
\* text or a placeholder comment), which does not exist.
AssetOf(tok, a) ==
    IF tok.inner = "" THEN a
    ELSE [exists |-> FALSE, ext |-> "", readable |-> FALSE]

\* The text that replaces one match of encodePattern, found by the pass of
\* buffer `by`.
EncodeReplacement(tok, a, by) ==
    LET first == IF tok.by = "" THEN by ELSE tok.by
    IN  IF tok.t = "wrapped"
        THEN [tok EXCEPT !.t = "encode", !.by = first,
                         !.inner = EncodeOutcome(a)]
        ELSE [tok EXCEPT !.t = EncodeOutcome(AssetOf(tok, a)), !.by = first]

MatchesEncode(tok) == tok.t \in {"encode", "wrapped"}

\* processEncodes(content, basePath), run by buffer `by`
processEncodes(text, a, by) ==
    [i \in 1..Len(text) |->
        IF MatchesEncode(text[i]) THEN EncodeReplacement(text[i], a, by)
        ELSE text[i]]

NumEncodes(text) == Cardinality({i \in 1..Len(text) : MatchesEncode(text[i])})

\* One call of the fs module: which function, and on which kind of path
\* ("main", "info", "source" for an included file, "image", "out").
FsOp(call, on) == [call |-> call, on |-> on]

\* The fs calls of the processEncodes callback on one match: existsSync,
\* then encodeImage's readFileSync once the extension has been accepted,
\* then statSync for the size it logs once the image has been encoded.
EncodeOpsOf(tok, a) ==
    LET x == IF tok.t = "wrapped" THEN a ELSE AssetOf(tok, a)
    IN  <<FsOp("existsSync", "image")>>
        \o (IF x.exists /\ x.ext \in SupportedImageExtensions
            THEN <<FsOp("readFileSync", "image")>> ELSE <<>>)
        \o (IF EncodeOutcome(x) = "image"
            THEN <<FsOp("statSync", "image")>> ELSE <<>>)

\* The fs calls of one processEncodes pass over text, match by match
RECURSIVE EncodeOps(_, _)
EncodeOps(text, a) ==
    IF text = <<>> THEN <<>>
    ELSE (IF MatchesEncode(Head(text)) THEN EncodeOpsOf(Head(text), a)
          ELSE <<>>) \o EncodeOps(Tail(text), a)

\* The fs calls of the processIncludes callback on one match: none when the
\* path is in processedFiles, else existsSync and, on an existing path,
\* readFileSync.
IncludeOps(outcome) ==
    IF outcome = "circular" THEN <<>>
    ELSE IF outcome = "notfound" THEN <<FsOp("existsSync", "source")>>
    ELSE <<FsOp("existsSync", "source"), FsOp("readFileSync", "source")>>

\* The fs calls of updatePluginInfo on info.lua as `file`
UpdateOps(file, wrote) ==
    <<FsOp("existsSync", "info")>>
    \o (IF file.exists THEN <<FsOp("readFileSync", "info")>> ELSE <<>>)
    \o (IF wrote THEN <<FsOp("writeFileSync", "info")>> ELSE <<>>)

----------------------------------------------------------------------------
(* processIncludes *)

Files == {"m", "b", "c", "d"}

MainFile == "m"

MaxDepth == 7

\* One active call of processIncludes: the file whose text it scans (Top
\* for compile's call), the text still to scan, the replaced text so far,
\* and its processedFiles argument.
Frame(file, todo, visited) ==
    [file |-> file, todo |-> todo, out |-> <<>>, visited |-> visited]

HasInclude(text) == \E i \in 1..Len(text) : text[i].t = "include"

NextInclude(text) ==
    CHOOSE i \in 1..Len(text) :
        text[i].t = "include" /\ \A j \in 1..(i - 1) : text[j].t # "include"

\* fs.readFileSync(filePath, 'utf8') of a Lua file
ReadFile(f) == fileText[f]

\* IncludeOutcome without the processedFiles.has test
IncludeOutcomeNoCycleTest(f, visited) ==
    IF fileKind[f] = "missing" THEN "notfound"
    ELSE IF fileKind[f] = "dir" THEN "incerror"
    ELSE "descend"

\* The branch the callback of processIncludes takes for file f.
IncludeOutcome(f, visited) ==
    IF f \in visited THEN "circular"
    ELSE IF fileKind[f] = "missing" THEN "notfound"
    ELSE IF fileKind[f] = "dir" THEN "incerror"
    ELSE "descend"

\* VisitedAfter with processedFiles.add moved before the existence test
VisitedAfterAddFirst(visited, f, outcome) == visited \cup {f}

\* VisitedAfter with processedFiles.add left out
VisitedAfterNoAdd(visited, f, outcome) == visited

\* processedFiles after the callback took branch `outcome` for f
VisitedAfter(visited, f, outcome) ==
    IF outcome = "descend" THEN visited \cup {f} ELSE visited

\* new Set(processedFiles): the nested call's argument
ChildVisited(visited) == visited

\* VisitedAfterReturn with the caller's set passed on without the copy
VisitedAfterReturnShared(visited, childVisited) == visited \cup childVisited

\* processedFiles of the caller once the nested call has returned: the
\* nested call worked on a copy
VisitedAfterReturn(visited, childVisited) == visited

\* EncodeIncluded with the processEncodes call left to compile
EncodeIncludedSkipped(text, a, f) == text

\* processEncodes(processedContent, basePath) in the callback
EncodeIncluded(text, a, f) == processEncodes(text, a, f)

\* The callback of processIncludes on the next include directive of the
\* innermost call.
IncludeDirective ==
    /\ pc = "includes"
    /\ stack # <<>>
    /\ LET n   == Len(stack)
           top == stack[n]
       IN  /\ HasInclude(top.todo)
           /\ LET k       == NextInclude(top.todo)
                  f       == top.todo[k].name
                  before  == SubSeq(top.todo, 1, k - 1)
                  rest    == SubSeq(top.todo, k + 1, Len(top.todo))
                  outcome == IncludeOutcome(f, top.visited)
                  visited == VisitedAfter(top.visited, f, outcome)
              IN  /\ IF outcome = "descend"
                     THEN
                       /\ n < MaxDepth
                       /\ stack' = Append(
                            [stack EXCEPT ![n] = [top EXCEPT
                                !.todo = rest,
                                !.out = top.out \o before,
                                !.visited = visited]],
                            Frame(f, ReadFile(f), ChildVisited(visited)))
                     ELSE
                       stack' = [stack EXCEPT ![n] = [top EXCEPT
                                !.todo = rest,
                                !.out = top.out \o before
                                        \o <<Tok(outcome, f, top.file)>>,
                                !.visited = visited]]
                  /\ fsOps' = fsOps \o IncludeOps(outcome)
    /\ UNCHANGED <<fsVars, infoVars, runs, encodeCalls, verVars>>
    /\ UNCHANGED <<pc, buildType, content, infoReturn, outFile>>

\* A nested processIncludes call returns: the callback that made it runs
\* processEncodes over the result and returns it between the markers.
IncludeReturn ==
    /\ pc = "includes"
    /\ Len(stack) > 1
    /\ LET n      == Len(stack)
           top    == stack[n]
           parent == stack[n - 1]
           processedContent == top.out \o top.todo
       IN  /\ ~HasInclude(top.todo)
           /\ stack' = [SubSeq(stack, 1, n - 1) EXCEPT ![n - 1] = [parent EXCEPT
                  !.out = parent.out
                          \o <<Tok("begin", top.file, parent.file)>>
                          \o EncodeIncluded(processedContent, asset, top.file)
                          \o <<Tok("end", top.file, parent.file)>>,
                  !.visited = VisitedAfterReturn(parent.visited, top.visited)]]
           /\ encodeCalls' = encodeCalls + NumEncodes(processedContent)
           /\ fsOps' = fsOps \o EncodeOps(processedContent, asset)
    /\ UNCHANGED <<fsVars, infoVars, runs, verVars>>
    /\ UNCHANGED <<pc, buildType, content, infoReturn, outFile>>

----------------------------------------------------------------------------
(* compile *)

\* Where compile goes after fs.existsSync(mainFilePath): process.exit(1)
\* ends the process on the spot when the main file is missing.
MainFileCheckSkipped(kind) == "info"

MainFileCheck(kind) == IF kind = "missing" THEN "exit1" ELSE "info"

\* if (!fs.existsSync(mainFilePath)) process.exit(1)
CompileStart ==
    /\ pc = "start"
    /\ pc' = MainFileCheck(fileKind[MainFile])
    /\ fsOps' = Append(fsOps, FsOp("existsSync", "main"))
    /\ UNCHANGED <<fsVars, infoVars, runs, encodeCalls, verVars>>
    /\ UNCHANGED <<buildType, stack, content, infoReturn, outFile>>

\* this.updatePluginInfo(infoFilePath, buildType)
CompileUpdateInfo ==
    /\ pc = "info"
    /\ \E u \in UUIDs :
         LET r == updatePluginInfo(infoFile, buildType, u)
         IN  /\ infoFile' = r.file
             /\ infoReturn' = r.ret
             /\ infoWrites' = IF r.wrote THEN infoWrites + 1 ELSE infoWrites
             /\ uuidLog' = IF r.generated THEN Append(uuidLog, u) ELSE uuidLog
             /\ kindLog' = IF r.found THEN Append(kindLog, buildType) ELSE kindLog
             /\ fsOps' = fsOps \o UpdateOps(infoFile, r.wrote)
    /\ pc' = "read"
    /\ UNCHANGED <<fsVars, info0, runs, encodeCalls, verVars>>
    /\ UNCHANGED <<buildType, stack, content, outFile>>

\* content = fs.readFileSync(mainFilePath); processIncludes(content, sourcePath)
\* is entered with the default processedFiles, an empty set.
\* A main path that is a directory passes the existence check and makes
\* readFileSync throw: main catches the error and exits with code 1.
CompileReadMain ==
    /\ pc = "read"
    /\ IF fileKind[MainFile] = "dir"
       THEN /\ pc' = "exit1"
            /\ UNCHANGED <<content, stack>>
       ELSE LET text == [i \in 1..Len(ReadFile(MainFile)) |->
                           [ReadFile(MainFile)[i] EXCEPT !.at = Top]]
            IN  /\ content' = text
                /\ stack' = <<Frame(Top, text, {})>>
                /\ pc' = "includes"
    /\ fsOps' = Append(fsOps, FsOp("readFileSync", "main"))
    /\ UNCHANGED <<fsVars, infoVars, runs, encodeCalls, verVars>>
    /\ UNCHANGED <<buildType, infoReturn, outFile>>

\* compile's processIncludes call returns
CompileIncludesDone ==
    /\ pc = "includes"
    /\ Len(stack) = 1
    /\ ~HasInclude(stack[1].todo)
    /\ content' = stack[1].out \o stack[1].todo
    /\ stack' = <<>>
    /\ pc' = "encodes"
    /\ UNCHANGED <<fsVars, infoVars, runs, encodeCalls, fsOps, verVars>>
    /\ UNCHANGED <<buildType, infoReturn, outFile>>

\* content = this.processEncodes(content, sourcePath)
CompileEncodes ==
    /\ pc = "encodes"
    /\ content' = processEncodes(content, asset, Top)
    /\ encodeCalls' = encodeCalls + NumEncodes(content)
    /\ fsOps' = fsOps \o EncodeOps(content, asset)
    /\ pc' = "write"
    /\ UNCHANGED <<fsVars, infoVars, runs, verVars>>
    /\ UNCHANGED <<buildType, stack, infoReturn, outFile>>

\* fs.writeFileSync(outputPath, content)
CompileWrite ==
    /\ pc = "write"
    /\ outFile' = [written |-> TRUE, text |-> content]
    /\ pc' = "done"
    /\ fsOps' = fsOps \o <<FsOp("writeFileSync", "out"), FsOp("statSync", "out")>>
    /\ UNCHANGED <<fsVars, infoVars, runs, encodeCalls, verVars>>
    /\ UNCHANGED <<buildType, stack, content, infoReturn>>

Compile ==
    \/ CompileStart
    \/ CompileUpdateInfo
    \/ CompileReadMain
    \/ IncludeDirective
    \/ IncludeReturn
    \/ CompileIncludesDone
    \/ CompileEncodes
    \/ CompileWrite

\* Another invocation of the compiler once a run has ended: each run is a
\* process of its own, and only the file system carries over.
MaxRuns == 2

Rerun ==
    /\ pc \in {"done", "exit1"}
    /\ runs < MaxRuns
    /\ \E k \in BuildKinds : buildType' = k
    /\ runs' = runs + 1
    /\ pc' = "start"
    /\ stack' = <<>>
    /\ content' = <<>>
    /\ infoReturn' = Null
    /\ encodeCalls' = 0
    /\ fsOps' = <<>>
    /\ UNCHANGED <<fsVars, infoVars, outFile, verVars>>

----------------------------------------------------------------------------
(* Direct calls of the version functions *)

IncrementVersionCall ==
    /\ vpc = "inc"
    /\ verResult' = incrementVersion(verArg, kindArg)
    /\ vpc' = "inc-done"
    /\ UNCHANGED <<fsVars, runVars, infoVars, runs, encodeCalls, fsOps>>
    /\ UNCHANGED <<verArg, kindArg, tupleArg, tupleResult>>

FormatParseCall ==
    /\ vpc = "fmt"
    /\ verResult' = formatVersion(tupleArg)
    /\ tupleResult' = parseVersion(formatVersion(tupleArg))
    /\ vpc' = "fmt-done"
    /\ UNCHANGED <<fsVars, runVars, infoVars, runs, encodeCalls, fsOps>>
    /\ UNCHANGED <<verArg, kindArg, tupleArg>>

----------------------------------------------------------------------------
(* Initial states *)

SeqsUpTo(S, n) == UNION {[1..k -> S] : k \in 0..n}

\* a sequence of <<t, name>> pairs as the text of buffer `file`
AsText(pairs, file) ==
    [i \in 1..Len(pairs) |-> Tok(pairs[i][1], pairs[i][2], file)]

ImageOk == [exists |-> TRUE, ext |-> ".png", readable |-> TRUE]

AssetStates ==
    { ImageOk,
      [exists |-> FALSE, ext |-> ".png", readable |-> TRUE],
      [exists |-> TRUE,  ext |-> ".txt", readable |-> TRUE],
      [exists |-> TRUE,  ext |-> ".svg", readable |-> FALSE] }

V1000 == <<"1", ".", "0", ".", "0", ".", "0">>

NoFile == [exists |-> FALSE, text |-> <<>>]

VerIdle ==
    /\ vpc = "idle"
    /\ verArg = <<>>
    /\ kindArg = "ver_dev"
    /\ verResult = <<>>
    /\ tupleArg = <<>>
    /\ tupleResult = <<>>

\* the start of the first run of compile, with info.lua and the build type
RunInit(info, kind) ==
    /\ pc = "start"
    /\ buildType = kind
    /\ stack = <<>>
    /\ content = <<>>
    /\ infoReturn = Null
    /\ outFile = [written |-> FALSE, text |-> <<>>]
    /\ runs = 1
    /\ infoFile = info
    /\ info0 = info
    /\ infoWrites = 0
    /\ uuidLog = <<>>
    /\ kindLog = <<>>
    /\ encodeCalls = 0
    /\ fsOps = <<>>

\* MaxDirectives bounds the number of directives in all the Lua files
\* together; MaxEncDirectives does so where the files also hold #encode
\* directives and literal text.
MaxDirectives == 4

MaxEncDirectives == 3

IncludeOf == {<<"include", f>> : f \in Files}

\* Include graphs over four files: m, b and c are files and d is a file or
\* is missing; or there is no main file at all.
InitGraph ==
    /\ \/ \E tm \in SeqsUpTo(IncludeOf, MaxDirectives) :
          \E tb \in SeqsUpTo(IncludeOf, MaxDirectives - Len(tm)) :
          \E tc \in SeqsUpTo(IncludeOf, MaxDirectives - Len(tm) - Len(tb)) :
          \E kd \in {"file", "missing"} :
          \E td \in IF kd = "file"
                    THEN SeqsUpTo(IncludeOf,
                                  MaxDirectives - Len(tm) - Len(tb) - Len(tc))
                    ELSE {<<>>} :
             /\ fileKind = [f \in Files |-> IF f = "d" THEN kd ELSE "file"]
             /\ fileText = [f \in Files |->
                   CASE f = "m" -> AsText(tm, f)
                     [] f = "b" -> AsText(tb, f)
                     [] f = "c" -> AsText(tc, f)
                     [] OTHER   -> AsText(td, f)]
       \/ /\ fileKind = [f \in Files |-> "missing"]
          /\ fileText = [f \in Files |-> <<>>]
    /\ asset = ImageOk
    /\ RunInit(NoFile, "ver_dev")
    /\ VerIdle

\* MaxCycleDirectives bounds the directives of the include graphs whose
\* runs are followed to their end.
MaxCycleDirectives == 3

\* Include graphs over the files m, b and c; d is missing.
InitCycles ==
    /\ \E tm \in SeqsUpTo(IncludeOf, MaxCycleDirectives) :
       \E tb \in SeqsUpTo(IncludeOf, MaxCycleDirectives - Len(tm)) :
       \E tc \in SeqsUpTo(IncludeOf, MaxCycleDirectives - Len(tm) - Len(tb)) :
          /\ fileKind = [f \in Files |-> IF f = "d" THEN "missing" ELSE "file"]
          /\ fileText = [f \in Files |->
                CASE f = "m" -> AsText(tm, f)
                  [] f = "b" -> AsText(tb, f)
                  [] f = "c" -> AsText(tc, f)
                  [] OTHER   -> <<>>]
    /\ asset = ImageOk
    /\ RunInit(NoFile, "ver_dev")
    /\ VerIdle

EncPairs ==
    {<<"include", f>> : f \in {"m", "b", "c"}}
        \cup {<<"encode", "logo">>, <<"wrapped", "logo">>, <<"text", "">>}

\* Three files with includes, #encode directives (plain or inside literal
\* directive text) and literal text: m and b
\* are files, c is a file, is missing or is a directory; the image is in
\* one of AssetStates.
InitEnc ==
    /\ \E tm \in SeqsUpTo(EncPairs, MaxEncDirectives) :
       \E tb \in SeqsUpTo(EncPairs, MaxEncDirectives - Len(tm)) :
       \E kc \in {"file", "missing", "dir"} :
       \E tc \in IF kc = "file"
                 THEN SeqsUpTo(EncPairs, MaxEncDirectives - Len(tm) - Len(tb))
                 ELSE {<<>>} :
          /\ fileKind = [f \in Files |->
                CASE f = "c" -> kc [] f = "d" -> "missing" [] OTHER -> "file"]
          /\ fileText = [f \in Files |->
                CASE f = "m" -> AsText(tm, f)
                  [] f = "b" -> AsText(tb, f)
                  [] f = "c" -> AsText(tc, f)
                  [] OTHER   -> <<>>]
    /\ asset \in AssetStates
    /\ RunInit(NoFile, "ver_dev")
    /\ VerIdle

MaxInfoTokens == 2

InfoVersions == {V1000, <<"2", ".", "9">>, <<>>}

InfoToks ==
    {InfoTok("text", <<>>), InfoTok("guid", <<>>)}
        \cup {InfoTok("version", v) : v \in InfoVersions}

\* Runs of the compiler with info.lua missing or holding any tokens; the
\* main file is missing, or includes b, which holds an #encode directive.
InitMeta ==
    /\ \E km \in {"file", "missing", "dir"} :
          /\ fileKind = [f \in Files |->
                CASE f = "m" -> km [] f = "b" -> "file" [] OTHER -> "missing"]
          /\ fileText = [f \in Files |->
                CASE f = "m" /\ km = "file" ->
                        <<Tok("text", "", f), Tok("include", "b", f)>>
                  [] f = "b" -> <<Tok("encode", "logo", f)>>
                  [] OTHER -> <<>>]
    /\ asset = ImageOk
    /\ \E info \in {NoFile} \cup {[exists |-> TRUE, text |-> t] :
                                    t \in SeqsUpTo(InfoToks, MaxInfoTokens)} :
       \E k \in BuildKinds : RunInit(info, k)
    /\ VerIdle

MaxComponents == 5

\* the dotted components the version strings are built from
ComponentPool ==
    { <<>>, <<"9">>, <<"1", "2">>, <<"3", "x">>, <<" ", "4">>, <<"-", "1">> }

NumberPool == {0, 7, 10, 129}

NoRun ==
    /\ fileKind = [f \in Files |-> "missing"]
    /\ fileText = [f \in Files |-> <<>>]
    /\ asset = ImageOk
    /\ pc = "idle"
    /\ buildType = "ver_dev"
    /\ stack = <<>>
    /\ content = <<>>
    /\ infoReturn = Null
    /\ outFile = [written |-> FALSE, text |-> <<>>]
    /\ runs = 0
    /\ infoFile = NoFile
    /\ info0 = NoFile
    /\ infoWrites = 0
    /\ uuidLog = <<>>
    /\ kindLog = <<>>
    /\ encodeCalls = 0
    /\ fsOps = <<>>

\* Calls of incrementVersion on dotted strings of up to MaxComponents
\* components, and of formatVersion on arrays as parseVersion returns them:
\* four or more numbers.
InitVer ==
    /\ NoRun
    /\ \/ /\ vpc = "inc"
          /\ \E n \in 1..MaxComponents : \E comps \in [1..n -> ComponentPool] :
                verArg = Join(comps, ".")
          /\ kindArg \in BuildKinds
          /\ tupleArg = <<>>
       \/ /\ vpc = "fmt"
          /\ \E n \in 4..MaxComponents : tupleArg \in [1..n -> NumberPool]
          /\ verArg = <<>>
          /\ kindArg = "ver_dev"
    /\ verResult = <<>>
    /\ tupleResult = <<>>

----------------------------------------------------------------------------
(* Specifications *)

Next == Compile

Spec == InitGraph /\ [][Next]_vars

LiveSpec == InitCycles /\ [][Next]_vars /\ WF_vars(Next)

EncSpec == InitEnc /\ [][Next]_vars

NextRuns == Compile \/ Rerun

MetaSpec == InitMeta /\ [][NextRuns]_vars

NextVer == IncrementVersionCall \/ FormatParseCall

VerSpec == InitVer /\ [][NextVer]_vars

----------------------------------------------------------------------------
(* Properties of processIncludes *)

\* <<t, name>> of every token of a text
Shape(text) == [i \in 1..Len(text) |-> <<text[i].t, text[i].name>>]

Names(text) == [i \in 1..Len(text) |-> text[i].name]

OnlyIncludes(text) == \A i \in 1..Len(text) : text[i].t = "include"

\* every text the run holds: the replaced text of each active call, compile's
\* content, the artifact
Buffers ==
    {stack[i].out : i \in 1..Len(stack)} \cup {content, outFile.text}

Holds(text, t) == \E i \in 1..Len(text) : text[i].t = t

\* the files whose expansion is in progress: the active nested calls
ActiveChain == {stack[i].file : i \in 2..Len(stack)}

\* C1: whenever the callback of processIncludes is about to evaluate an
\* include directive, the processedFiles set of that call holds only files
\* of the active inclusion chain; hence the text compile itself read, which
\* has no ancestor, never gets a circular-include marker.
VisitedIsActiveChain ==
    /\ (pc = "includes" /\ stack # <<>> /\ HasInclude(stack[Len(stack)].todo))
           => stack[Len(stack)].visited \subseteq ActiveChain
    /\ \A text \in Buffers : \A i \in 1..Len(text) :
           text[i].t = "circular" => text[i].at # Top

\* main includes b then c, b and c include d, d includes nothing
Diamond(b, c, d) ==
    /\ Cardinality({MainFile, b, c, d}) = 4
    /\ \A f \in {MainFile, b, c, d} : fileKind[f] = "file"
    /\ OnlyIncludes(fileText[MainFile]) /\ Names(fileText[MainFile]) = <<b, c>>
    /\ OnlyIncludes(fileText[b]) /\ Names(fileText[b]) = <<d>>
    /\ OnlyIncludes(fileText[c]) /\ Names(fileText[c]) = <<d>>
    /\ fileText[d] = <<>>

\* C2: on a diamond (main includes b and c, both include d, d includes
\* nothing) the result holds d between its markers inside b's markers and
\* again inside c's, and no buffer ever holds a circular-include marker.
DiamondExpandsTwice ==
    \A b, c, d \in Files :
        Diamond(b, c, d) =>
            /\ \A text \in Buffers : ~Holds(text, "circular")
            /\ pc = "done" =>
                  Shape(outFile.text) =
                      << <<"begin", b>>, <<"begin", d>>, <<"end", d>>, <<"end", b>>,
                         <<"begin", c>>, <<"begin", d>>, <<"end", d>>, <<"end", c>> >>

DiamondResolved ==
    /\ pc = "done"
    /\ \E b, c, d \in Files : Diamond(b, c, d)

\* file a holds one directive, an include of a itself, and it is what is
\* resolved: a is the main file, or the only thing the main file includes
SelfIncluding(a) ==
    /\ fileKind[a] = "file"
    /\ Shape(fileText[a]) = << <<"include", a>> >>
    /\ a # MainFile => Shape(fileText[MainFile]) = << <<"include", a>> >>

\* C3: resolving a file a whose only directive includes a gives the text of
\* a once, holding exactly one circular-include marker in place of the
\* directive, and a is never entered a second time: no call of
\* processIncludes is nested below the one on a's text.
SelfIncludeMarkedOnce ==
    \A a \in Files :
        SelfIncluding(a) =>
            /\ Len(stack) <= 2
            /\ \A text \in Buffers :
                  Cardinality({i \in 1..Len(text) : text[i].t = "circular"}) <= 1
            /\ pc = "done" =>
                  Shape(outFile.text) =
                      << <<"begin", a>>, <<"circular", a>>, <<"end", a>> >>

SelfIncludeResolved ==
    /\ pc = "done"
    /\ \E a \in Files : SelfIncluding(a)
    /\ Holds(outFile.text, "circular")

ExistingFiles == {f \in Files : fileKind[f] = "file"}

\* a step that enters a nested call enters a file that exists and is not in
\* the caller's processedFiles, with exactly that file added
DescentGrows ==
    (stack # <<>> /\ Len(stack') = Len(stack) + 1) =>
        LET n == Len(stack)
            f == stack'[n + 1].file
        IN  /\ f \in ExistingFiles
            /\ f \notin stack[n].visited
            /\ stack'[n + 1].visited = stack[n].visited \cup {f}

\* the files of the active nested calls are distinct existing files, each
\* call's processedFiles holds those of the calls around it, and there are
\* never more active calls than existing files plus one
RecursionBounded ==
    /\ Len(stack) <= Cardinality(ExistingFiles) + 1
    /\ \A i \in 2..Len(stack) :
          /\ stack[i].file \in ExistingFiles
          /\ stack[i - 1].visited \subseteq stack[i].visited
          /\ {stack[j].file : j \in 2..i} \subseteq stack[i].visited
          /\ \A j \in 2..(i - 1) : stack[j].file # stack[i].file

Ended == pc \in {"done", "exit1"}

\* C4: whatever the include graph (self-loops, cycles of any length), every
\* descent adds one existing file to processedFiles, the number of active
\* processIncludes calls never exceeds the number of existing files plus
\* one, and the run ends.
IncludesTerminate ==
    /\ [][DescentGrows]_vars
    /\ []RecursionBounded
    /\ <>Ended

\* the deepest recursion there can be: every existing file is being expanded
DeepestRecursion == Len(stack) = Cardinality(ExistingFiles) + 1

----------------------------------------------------------------------------
(* Properties of the directive failures and of the encode passes *)

\* the marker a failing include of f must leave, "" when it does not fail
FailureMarker(f, visited) ==
    IF f \in visited THEN "circular"
    ELSE IF fileKind[f] = "missing" THEN "notfound"
    ELSE IF fileKind[f] = "dir" THEN "incerror"
    ELSE ""

\* the quoted replacement every #encode occurrence must get
ImageReplacement ==
    IF ~asset.exists THEN "imgnotfound"
    ELSE IF asset.ext \in {".png", ".jpg", ".jpeg", ".svg"} /\ asset.readable
    THEN "image"
    ELSE "imgerror"

\* `after` is `before` with each #encode occurrence replaced by its own
\* replacement, carrying its own file name, and nothing else changed
EncodedOneByOne(before, after) ==
    /\ Len(after) = Len(before)
    /\ \A i \in 1..Len(before) :
          CASE before[i].t = "encode" /\ before[i].inner = "" ->
                  /\ after[i].t = ImageReplacement
                  /\ after[i].name = before[i].name
            [] before[i].t = "encode" /\ before[i].inner # "" ->
                  /\ after[i].t = "imgnotfound"
                  /\ after[i].name = before[i].name
                  /\ after[i].inner = before[i].inner
            [] before[i].t = "wrapped" ->
                  /\ after[i].t = "encode"
                  /\ after[i].inner = ImageReplacement
                  /\ after[i].name = before[i].name
            [] OTHER -> after[i] = before[i]

\* a step on an include directive that fails changes one thing: the marker,
\* carrying the file name, is appended to the replaced text of that call
IncludeFailureIsolated ==
    (pc = "includes" /\ stack # <<>> /\ HasInclude(stack[Len(stack)].todo)) =>
        LET n   == Len(stack)
            top == stack[n]
            k   == NextInclude(top.todo)
            f   == top.todo[k].name
        IN  FailureMarker(f, top.visited) # "" =>
               /\ pc' = "includes"
               /\ Len(stack') = n
               /\ \A i \in 1..(n - 1) : stack'[i] = stack[i]
               /\ stack'[n].file = top.file
               /\ stack'[n].visited = top.visited
               /\ stack'[n].todo = SubSeq(top.todo, k + 1, Len(top.todo))
               /\ Len(stack'[n].out) = Len(top.out) + k
               /\ SubSeq(stack'[n].out, 1, Len(top.out) + k - 1)
                      = top.out \o SubSeq(top.todo, 1, k - 1)
               /\ <<stack'[n].out[Len(top.out) + k].t,
                    stack'[n].out[Len(top.out) + k].name>>
                      = <<FailureMarker(f, top.visited), f>>

\* an encode pass, in an included file's callback or in compile, replaces
\* every occurrence whatever happens to the others, and the run goes on
EncodePassIsolated ==
    /\ (pc = "includes" /\ Len(stack') = Len(stack) - 1 /\ Len(stack) > 1) =>
          LET n      == Len(stack)
              top    == stack[n]
              before == top.out \o top.todo
              grown  == stack'[n - 1].out
              from   == Len(stack[n - 1].out)
          IN  /\ pc' = "includes"
              /\ Len(grown) = from + Len(before) + 2
              /\ SubSeq(grown, 1, from) = stack[n - 1].out
              /\ EncodedOneByOne(before,
                                 SubSeq(grown, from + 2, from + 1 + Len(before)))
    /\ pc = "encodes" =>
          /\ pc' \in {"encodes", "write"}
          /\ pc' = "write" => EncodedOneByOne(content, content')

\* C5: a failing directive (include: circular, not found, read error;
\* encode: not found, unsupported extension, read error) changes only its
\* own replacement, which carries the file name it referenced; the state
\* the other directives are resolved from (the text still to scan, the
\* processedFiles sets, the calls around) is untouched and the pass goes on.
DirectiveFailuresIsolated ==
    [][IncludeFailureIsolated /\ EncodePassIsolated]_vars

\* the artifact holds a failure marker, or failed image, followed by a
\* directive that was resolved
FailureThenSuccess ==
    /\ pc = "done"
    /\ \E i, j \in 1..Len(outFile.text) :
          /\ i < j
          /\ outFile.text[i].t \in {"circular", "notfound", "incerror"}
          /\ outFile.text[j].t = "begin"
    /\ \E i \in 1..Len(outFile.text) :
          outFile.text[i].t \in {"imgnotfound", "imgerror"}

Replaced(tok) == tok.t \in {"image", "imgnotfound", "imgerror"}

\* the token's source occurrence of an encode directive has been replaced
SourceReplaced(tok) == tok.by # ""

\* a directive that the replacement of a source occurrence completed
Completed(tok) == tok.t = "encode" /\ tok.inner # ""

Count(text, P(_)) == Cardinality({i \in 1..Len(text) : P(text[i])})

CompletedThenReplaced(tok) == Replaced(tok) /\ tok.inner # ""

\* Every #encode occurrence of a source text is replaced by the encode pass
\* of the buffer it was read from: one of an included file in that file's
\* callback, before the text is spliced into the including buffer; one of
\* the main text by compile's pass, after processIncludes has returned; and
\* the callback runs once for each.
EncodedOnceAtItsPhase ==
    /\ \A text \in Buffers : \A i \in 1..Len(text) :
          SourceReplaced(text[i]) =>
              /\ text[i].by = text[i].at
              /\ text[i].by = Top => pc \in {"write", "done"}
    /\ \A n \in 1..Len(stack) : \A i \in 1..Len(stack[n].out) :
          (MatchesEncode(stack[n].out[i]) /\ ~SourceReplaced(stack[n].out[i]))
              => stack[n].out[i].at = stack[n].file
    /\ \A i \in 1..Len(content) :
          (MatchesEncode(content[i]) /\ ~SourceReplaced(content[i]))
              => content[i].at = Top
    /\ pc = "done" =>
          encodeCalls = Count(outFile.text, SourceReplaced)
                            + Count(outFile.text, CompletedThenReplaced)

----------------------------------------------------------------------------
(* Properties of the version functions and of updatePluginInfo *)

\* the component a build kind increments: ver_dev's for an unknown kind
KindPosition(kind) ==
    CASE kind = "ver_maj" -> 1
      [] kind = "ver_min" -> 2
      [] kind = "ver_fix" -> 3
      [] OTHER -> 4

\* the table of build kinds applied to components p: the kind's component
\* plus one, those after it up to the fourth zero, every other one as it was
KindEffect(p, kind) ==
    [i \in 1..Len(p) |->
        IF i = KindPosition(kind) THEN p[i] + 1
        ELSE IF i > KindPosition(kind) /\ i <= 4 THEN 0
        ELSE p[i]]

\* C6: the components parsed from incrementVersion(v, k) are those parsed
\* from v changed as the table of build kinds says, components beyond the
\* fourth unchanged.
IncrementFollowsTable ==
    vpc = "inc-done" =>
        parseVersion(verResult) = KindEffect(parseVersion(verArg), kindArg)

\* ver_min on five components, with fix, dev and fifth components to reset
\* or keep
MinorIncrementOfFive ==
    /\ vpc = "inc-done"
    /\ kindArg = "ver_min"
    /\ Len(parseVersion(verArg)) = 5
    /\ \A i \in 3..5 : parseVersion(verArg)[i] # 0

\* C7: parseVersion(formatVersion(t)) = t for a version array t of
\* non-negative integers.
FormatParseRoundTrip ==
    vpc = "fmt-done" => tupleResult = tupleArg

\* an array of five numbers, some of several digits, has made the round trip
LongArrayRoundTrip ==
    /\ vpc = "fmt-done"
    /\ Len(tupleArg) = 5
    /\ \E i, j \in 1..5 : tupleArg[i] >= 10 /\ tupleArg[j] = 0

\* info.lua holds something updatePluginInfo substitutes
Substitutable(file) ==
    /\ file.exists
    /\ \E i \in 1..Len(file.text) :
          \/ file.text[i].t = "guid"
          \/ file.text[i].t = "version" /\ file.text[i].v # <<>>

\* what a step of updatePluginInfo does to info.lua and returns
UpdateWritesIffSubstituted ==
    (pc = "info" /\ pc' = "read") =>
        /\ infoWrites' = IF Substitutable(infoFile) THEN infoWrites + 1
                         ELSE infoWrites
        /\ ~Substitutable(infoFile) => infoFile' = infoFile
        /\ infoReturn'.null <=> ~infoFile.exists
        /\ ~infoReturn'.null =>
              /\ infoFile'.exists
              /\ infoReturn'.text = infoFile'.text

\* C8: updatePluginInfo writes info.lua exactly when the placeholder was
\* present or a BuildVersion field matched; it returns null and writes
\* nothing when the file is missing, returns the text unchanged and writes
\* nothing when there is nothing to substitute, and whenever it returns a
\* text, that is the content of the file after the call.
MetadataWrittenIffChanged == [][UpdateWritesIffSubstituted]_vars

\* an update has substituted and written
MetadataWritten ==
    /\ pc = "read"
    /\ infoWrites = 1
    /\ infoFile # info0
    /\ infoReturn.text = infoFile.text

RECURSIVE KindEffects(_, _)
KindEffects(p, kinds) ==
    IF kinds = <<>> THEN p
    ELSE KindEffects(KindEffect(p, Head(kinds)), Tail(kinds))

IsGuid(tok) == tok.t = "guid"

\* info.lua held one placeholder and a BuildVersion field before the runs
OnePlaceholderAndVersion ==
    /\ info0.exists
    /\ Count(info0.text, IsGuid) = 1
    /\ Count(info0.text, MatchesBuildVersion) >= 1

\* C9: over the runs on an info.lua that held one placeholder and a
\* BuildVersion field, one identifier is generated, by the first run, and
\* it stays where the placeholder was; the version in the file is the
\* initial one with the increment of each run's build kind applied in turn;
\* nothing else in the file changes.
MetadataRunsAccumulate ==
    (OnePlaceholderAndVersion /\ kindLog # <<>>) =>
        LET g == CHOOSE i \in 1..Len(info0.text) : IsGuid(info0.text[i])
            k == CHOOSE i \in 1..Len(info0.text) :
                     /\ MatchesBuildVersion(info0.text[i])
                     /\ \A j \in 1..(i - 1) : ~MatchesBuildVersion(info0.text[j])
        IN  /\ Len(uuidLog) = 1
            /\ infoFile.exists
            /\ Len(infoFile.text) = Len(info0.text)
            /\ infoFile.text[g] = InfoTok("uuid", <<uuidLog[1]>>)
            /\ infoFile.text[k].t = "version"
            /\ parseVersion(infoFile.text[k].v)
                   = KindEffects(parseVersion(info0.text[k].v), kindLog)
            /\ \A i \in 1..Len(info0.text) :
                   i \notin {g, k} => infoFile.text[i] = info0.text[i]

\* 1.0.0.0 --ver_min--> 1.1.0.0 --ver_dev--> 1.1.0.1, with the placeholder
TwoRunsOnReadmeInfo ==
    /\ OnePlaceholderAndVersion
    /\ kindLog = <<"ver_min", "ver_dev">>
    /\ \E i \in 1..Len(info0.text) : info0.text[i] = InfoTok("version", V1000)
    /\ \E i \in 1..Len(infoFile.text) :
          infoFile.text[i] =
              InfoTok("version", <<"1", ".", "1", ".", "0", ".", "1">>)

----------------------------------------------------------------------------
(* The order of compile's file-system effects *)

\* The stage of compile a file-system call belongs to: 0 the existence
\* check of the main file, 1 the metadata update, 2 directive resolution
\* (reading the main file, the included files and the images), 3 the output.
Phase(op) ==
    CASE op.on = "main" /\ op.call = "existsSync" -> 0
      [] op.on = "info" -> 1
      [] op.on = "out"  -> 3
      [] OTHER          -> 2

Ops(ph) == {i \in DOMAIN fsOps : Phase(fsOps[i]) = ph}

\* The calls of a run come stage by stage, the main-file check first.
EffectsInOrder ==
    /\ fsOps # <<>> => Ops(0) = {1}
    /\ \A i, j \in DOMAIN fsOps :
          i < j => Phase(fsOps[i]) <= Phase(fsOps[j])

\* A missing main file: the run makes the existence check and nothing else,
\* info.lua is as it was and no artifact exists.
MissingMainExits ==
    fileKind[MainFile] = "missing" =>
        /\ pc \in {"start", "exit1"}
        /\ fsOps = IF pc = "start" THEN <<>>
                   ELSE <<FsOp("existsSync", "main")>>
        /\ infoFile = info0
        /\ infoWrites = 0
        /\ kindLog = <<>>
        /\ ~outFile.written

\* Once resolution has made a call, this run's metadata update is over:
\* updatePluginInfo has looked for info.lua and, where it exists, has been
\* applied once per run.  An exit with the main file present is the read
\* error of the main path, after the update.
UpdateBeforeResolution ==
    /\ Ops(2) # {} =>
          /\ pc \notin {"start", "info"}
          /\ Ops(1) # {}
          /\ infoFile.exists => Len(kindLog) = runs
    /\ (pc = "exit1" /\ fileKind[MainFile] # "missing") =>
          /\ fileKind[MainFile] = "dir"
          /\ Ops(1) # {}
          /\ Ops(3) = {}
          /\ ~outFile.written

\* Once the artifact is written, no processIncludes call is active, no
\* include directive is left in the text, and the artifact is that text.
ResolutionBeforeWrite ==
    Ops(3) # {} =>
        /\ pc = "done"
        /\ stack = <<>>
        /\ \A i \in DOMAIN content : content[i].t # "include"
        /\ outFile = [written |-> TRUE, text |-> content]

\* Step by step: the check decides between exit and update; info.lua
\* changes only while no call of resolution or output has been made;
\* the text changes without touching info.lua or the artifact; the artifact
\* is written without touching the text or info.lua.
EffectsStep ==
    /\ pc = "start" =>
          pc' = IF fileKind[MainFile] = "missing" THEN "exit1" ELSE "info"
    /\ infoVars' # infoVars =>
          /\ pc = "info"
          /\ Ops(2)' = {} /\ Ops(3)' = {}
          /\ stack' = stack /\ content' = content /\ outFile' = outFile
    /\ (stack' # stack \/ content' # content) =>
          /\ infoVars' = infoVars
          /\ outFile' = outFile
    /\ outFile' # outFile =>
          /\ pc = "write"
          /\ infoVars' = infoVars
          /\ stack' = stack /\ content' = content

\* C11: compile makes its file-system effects in strict order: the
\* existence check of the main file first; with the main file missing the
\* process exits with code 1, info.lua not updated and no artifact written;
\* otherwise the metadata update is complete before directive resolution
\* begins and resolution is complete before the artifact is written.
CompileEffectsInStrictOrder ==
    /\ [](EffectsInOrder /\ MissingMainExits
          /\ UpdateBeforeResolution /\ ResolutionBeforeWrite)
    /\ [][EffectsStep]_vars

\* A run that rewrote info.lua, read an included file and an image, and
\* wrote the artifact.
AllStagesRun ==
    /\ pc = "done"
    /\ \E i \in Ops(1) : fsOps[i] = FsOp("writeFileSync", "info")
    /\ \E i \in Ops(2) : fsOps[i] = FsOp("readFileSync", "source")
    /\ \E i \in Ops(2) : fsOps[i] = FsOp("readFileSync", "image")
    /\ \E i \in Ops(3) : fsOps[i] = FsOp("writeFileSync", "out")

=============================================================================
